---- MODULE Spec2Model ----
(***************************************************************************)
(* The episode workflow state machine and the agent task pipeline of       *)
(* app.py, as state machines.                                              *)
(*                                                                         *)
(* Strings the program builds are sequences of pieces, so that a prefix    *)
(* the code puts in front of a message ("AI error: ", "Error: ") is part   *)
(* of the value.  Timestamps are readings of a logical clock; NoTime is    *)
(* Python's None.  A note of "" stands for both None and the empty string, *)
(* which the code treats alike (`if notes:`).                              *)
(***************************************************************************)
EXTENDS Integers, Sequences, FiniteSets, TLC

\* ------------------------------------------------------------------ bounds
\* Requests served one after the other (Spec).
MaxCalls == 4
\* Of those, requests to PUT /api/episodes/<id>/workflow/phase.
MaxPhaseWrites == 1
\* Review notes accepted over one behaviour.
MaxNotes == 1
\* Requests in flight at once on one episode (SpecConc, SpecVersions), one
\* per thread.
MaxThreads == 2
\* Agent tasks created through POST /api/agent-tasks (SpecTasks).
MaxTasks == 1
\* Requests to PUT /api/agent-tasks/<id> (SpecTasks).
MaxTaskUpdates == 2
\* Pipeline runs, one after the other (SpecSwarm).
MaxRuns == 1
\* Store operations that raise over one behaviour (SpecSwarm).
MaxFaults == 1
\* Requests to PUT /api/script-versions/<id> and to .../lock (SpecVersions).
MaxEdits == 2

\* --------------------------------------------------------------- constants
\* 'startedAt': None, 'completedAt': None
NoTime == 0

\* EPISODE_PHASES: phase -> order
EPISODE_PHASES ==
    [research |-> 1, archive |-> 2, script |-> 3, voiceover |-> 4, assembly |-> 5]

Phases == DOMAIN EPISODE_PHASES

PHASE_STATUSES == {"pending", "in_progress", "review", "approved", "rejected"}

\* What a client may send as `phase`: the registry's keys and one that is not.
PhaseInputs == Phases \cup {"credits"}

\* What a client may send as `notes`.
NoteInputs == {"", "looks good"}

VARIABLES
    episode,     \* the stored episode document: [hasWorkflow, workflow]
    clock,       \* datetime.utcnow(), as a count of the requests served
    noteCount,   \* notes accepted so far (bounds the note logs)
    lastCall,    \* the request served last, with its outcome
    phaseWrites, \* requests to PUT .../workflow/phase served so far
    onlyCurrent, \* history: every phase write so far targeted currentPhase
    pc,          \* SpecConc: where each request thread stands
    req,         \* SpecConc: each thread's arguments and the document it read
    startDoc,    \* history: the episode document before any request
    tasks,       \* the agent_tasks collection, in order of creation
    taskLog,     \* history, per task: status changes, failed generation call
    taskCalls,   \* requests to PUT /api/agent-tasks/<id> served so far
    scriptVersions, \* the script_versions collection, in order of creation
    sw,          \* SpecSwarm: the locals of the running pipeline handler
    runs,        \* pipeline runs started so far
    faults,      \* store operations that raised so far
    vreq,        \* SpecVersions: where each POST /api/script-versions stands
    scriptWorkspace, \* the episode document's scriptWorkspace field
    edits,       \* requests to PUT /api/script-versions/<id> and .../lock served
    project,     \* SpecDashboard: the episode documents of one project
    dashboard    \* SpecDashboard: what GET .../dashboard answered last

seqVars == <<noteCount, lastCall, phaseWrites, onlyCurrent>>
concVars == <<pc, req, startDoc>>
taskVars == <<tasks, taskLog, taskCalls>>
versionVars == <<vreq, scriptWorkspace, edits>>
dashVars == <<project, dashboard>>
swarmVars == <<scriptVersions, sw, runs, faults, versionVars, dashVars>>
flowVars == <<episode, noteCount, lastCall, phaseWrites, onlyCurrent, pc, req,
              startDoc, dashVars>>
vars == <<episode, clock, noteCount, lastCall, phaseWrites, onlyCurrent,
          pc, req, startDoc, tasks, taskLog, taskCalls,
          scriptVersions, sw, runs, faults, vreq, scriptWorkspace, edits,
          project, dashboard>>

\* ------------------------------------------------------- workflow, as code

\* initialize_episode_workflow with `order > 1` read as `order >= 1` and
\* line 184 left out: research starts pending and unstamped like the rest.
InitializeAllPending(now) ==
    [currentPhase |-> "research",
     phases |-> [p \in Phases |->
        [status      |-> IF EPISODE_PHASES[p] >= 1 THEN "pending" ELSE "in_progress",
         startedAt   |-> NoTime,
         completedAt |-> NoTime,
         reviewNotes |-> << >>,
         assignedTo  |-> "None"]]]

\* initialize_episode_workflow(episode_id), called at time `now`
initialize_episode_workflow(now) ==
    [currentPhase |-> "research",
     phases |-> [p \in Phases |->
        [status      |-> IF EPISODE_PHASES[p] > 1 THEN "pending" ELSE "in_progress",
         startedAt   |-> IF p = "research" THEN now ELSE NoTime,
         completedAt |-> NoTime,
         reviewNotes |-> << >>,
         assignedTo  |-> "None"]]]

\* episode.get('workflow', initialize_episode_workflow(episode_id))
StoredWorkflow(doc, now) ==
    IF doc.hasWorkflow THEN doc.workflow ELSE initialize_episode_workflow(now)

\* workflow.get('currentPhase', 'research') on episode.get('workflow', {})
CurrentPhaseOf(doc) ==
    IF doc.hasWorkflow THEN doc.workflow.currentPhase ELSE "research"

\* NextPhases with the comparison off by one: the loop stops two phases on.
NextPhasesSkip(phase) ==
    {q \in Phases : EPISODE_PHASES[q] = EPISODE_PHASES[phase] + 2}

\* the phases the loop of lines 207-212 can stop at
NextPhases(phase) ==
    {q \in Phases : EPISODE_PHASES[q] = EPISODE_PHASES[phase] + 1}

\* ApproveBranch without line 209: the next phase starts, currentPhase stays.
ApproveBranchNoAdvance(w, phase, now) ==
    LET done == [w EXCEPT !.phases[phase].completedAt = now]
    IN  IF NextPhases(phase) = {}
        THEN done
        ELSE LET next_phase == CHOOSE q \in NextPhases(phase) : TRUE
             IN  [done EXCEPT !.phases[next_phase].status = "in_progress",
                              !.phases[next_phase].startedAt = now]

\* ApproveBranch without line 204: the approved phase gets no completedAt.
ApproveBranchNoStamp(w, phase, now) ==
    IF NextPhases(phase) = {}
    THEN w
    ELSE LET next_phase == CHOOSE q \in NextPhases(phase) : TRUE
         IN  [w EXCEPT !.currentPhase = next_phase,
                       !.phases[next_phase].status = "in_progress",
                       !.phases[next_phase].startedAt = now]

\* ApproveBranch with line 211 under `if not ...['startedAt']`: the next
\* phase keeps a startedAt it already has.
ApproveBranchKeepsStart(w, phase, now) ==
    LET done == [w EXCEPT !.phases[phase].completedAt = now]
    IN  IF NextPhases(phase) = {}
        THEN done
        ELSE LET next_phase == CHOOSE q \in NextPhases(phase) : TRUE
             IN  [done EXCEPT !.currentPhase = next_phase,
                              !.phases[next_phase].status = "in_progress",
                              !.phases[next_phase].startedAt =
                                  IF @ = NoTime THEN now ELSE @]

\* ApproveBranch with the loop of lines 207-212 testing `>=` and not
\* breaking: every later phase is started, the last one becomes current.
ApproveBranchStartsRest(w, phase, now) ==
    LET done == [w EXCEPT !.phases[phase].completedAt = now]
        later == {q \in Phases : EPISODE_PHASES[q] > EPISODE_PHASES[phase]}
    IN  IF later = {}
        THEN done
        ELSE [currentPhase |-> "assembly",
              phases |-> [q \in Phases |->
                  IF q \in later
                  THEN [done.phases[q] EXCEPT !.status = "in_progress",
                                              !.startedAt = now]
                  ELSE done.phases[q]]]

\* the `elif status == 'approved'` branch
ApproveBranch(w, phase, now) ==
    LET done == [w EXCEPT !.phases[phase].completedAt = now]
    IN  IF NextPhases(phase) = {}
        THEN done
        ELSE LET next_phase == CHOOSE q \in NextPhases(phase) : TRUE
             IN  [done EXCEPT !.currentPhase = next_phase,
                              !.phases[next_phase].status = "in_progress",
                              !.phases[next_phase].startedAt = now]

\* update_episode_phase without `and not ...['startedAt']` in line 201: an
\* in_progress write stamps startedAt every time.
UpdatePhaseAlwaysStamps(workflow, phase, status, notes, now) ==
    LET w1 == [workflow EXCEPT !.phases[phase].status = status]
        w2 == IF status = "in_progress"
              THEN [w1 EXCEPT !.phases[phase].startedAt = now]
              ELSE IF status = "approved"
                   THEN ApproveBranch(w1, phase, now)
                   ELSE w1
    IN  IF notes # ""
        THEN [w2 EXCEPT !.phases[phase].reviewNotes =
                            Append(@, [text |-> notes, timestamp |-> now])]
        ELSE w2

\* update_episode_phase with line 203 reading `status in ('approved',
\* 'review')`: a phase sent to review moves the workflow on.
UpdatePhaseReviewAdvances(workflow, phase, status, notes, now) ==
    LET w1 == [workflow EXCEPT !.phases[phase].status = status]
        w2 == IF status = "in_progress" /\ w1.phases[phase].startedAt = NoTime
              THEN [w1 EXCEPT !.phases[phase].startedAt = now]
              ELSE IF status \in {"approved", "review"}
                   THEN ApproveBranch(w1, phase, now)
                   ELSE w1
    IN  IF notes # ""
        THEN [w2 EXCEPT !.phases[phase].reviewNotes =
                            Append(@, [text |-> notes, timestamp |-> now])]
        ELSE w2

\* the body of update_episode_phase from line 199 on, for a phase of the
\* workflow: the workflow it hands to update_doc
update_episode_phase(workflow, phase, status, notes, now) ==
    LET w1 == [workflow EXCEPT !.phases[phase].status = status]
        w2 == IF status = "in_progress" /\ w1.phases[phase].startedAt = NoTime
              THEN [w1 EXCEPT !.phases[phase].startedAt = now]
              ELSE IF status = "approved"
                   THEN ApproveBranch(w1, phase, now)
                   ELSE w1
    IN  IF notes # ""
        THEN [w2 EXCEPT !.phases[phase].reviewNotes =
                            Append(@, [text |-> notes, timestamp |-> now])]
        ELSE w2

\* EpisodeAfterUpdate without the return of lines 196-197: the workflow read
\* is written back for a phase it does not hold.
EpisodeAfterUpdateNoGuard(doc, phase, status, notes, now) ==
    [hasWorkflow |-> TRUE,
     workflow |-> IF phase \in Phases
                  THEN update_episode_phase(StoredWorkflow(doc, now),
                                            phase, status, notes, now)
                  ELSE StoredWorkflow(doc, now)]

\* update_episode_phase as a whole: the episode document after the call
\* (unchanged when the phase is not in the workflow and the call returns None)
EpisodeAfterUpdate(doc, phase, status, notes, now) ==
    IF phase \notin Phases
    THEN doc
    ELSE [hasWorkflow |-> TRUE,
          workflow |-> update_episode_phase(StoredWorkflow(doc, now),
                                            phase, status, notes, now)]

\* get_episode_workflow_status with the comparison against 'approved'
\* left out: every phase counts as completed.
StatusCountingAll(doc) ==
    LET completed_phases == IF doc.hasWorkflow THEN Cardinality(Phases) ELSE 0
        total_phases == Cardinality(Phases)
    IN  [currentPhase    |-> CurrentPhaseOf(doc),
         progress        |-> (completed_phases * 100) \div total_phases,
         completedPhases |-> completed_phases,
         totalPhases     |-> total_phases]

\* get_episode_workflow_status: what GET .../workflow answers for the stored
\* document (an episode without a workflow has no phases to count).  The
\* quotient completed/total*100 is a whole number for five phases.
get_episode_workflow_status(doc) ==
    LET completed_phases ==
            IF doc.hasWorkflow
            THEN Cardinality({p \in Phases : doc.workflow.phases[p].status = "approved"})
            ELSE 0
        total_phases == Cardinality(Phases)
    IN  [currentPhase    |-> CurrentPhaseOf(doc),
         progress        |-> (completed_phases * 100) \div total_phases,
         completedPhases |-> completed_phases,
         totalPhases     |-> total_phases]

\* ---------------------------------------------------------------- actions

\* lastCall before any request
NoCall == [op |-> "none", phase |-> "research", status |-> "pending",
           notes |-> "", code |-> 0]


NoteAllowed(notes) == notes = "" \/ noteCount < MaxNotes

Tick(notes) ==
    /\ clock' = clock + 1
    /\ noteCount' = IF notes = "" THEN noteCount ELSE noteCount + 1

\* PUT /api/episodes/<id>/workflow/phase
update_workflow_phase(phase, status, notes) ==
    /\ clock <= MaxCalls
    /\ phaseWrites < MaxPhaseWrites
    /\ phaseWrites' = phaseWrites + 1
    /\ UNCHANGED <<concVars, taskVars, swarmVars>>
    /\ NoteAllowed(notes)
    /\ Tick(notes)
    /\ IF phase \notin Phases
       THEN /\ episode' = episode
            /\ onlyCurrent' = onlyCurrent
            /\ lastCall' = [op |-> "set", phase |-> phase, status |-> status,
                            notes |-> notes, code |-> 400]
       ELSE /\ episode' = EpisodeAfterUpdate(episode, phase, status, notes, clock')
            /\ onlyCurrent' = (onlyCurrent /\ phase = CurrentPhaseOf(episode))
            /\ lastCall' = [op |-> "set", phase |-> phase, status |-> status,
                            notes |-> notes, code |-> 200]

\* POST /api/episodes/<id>/approve-phase
approve_episode_phase(notes) ==
    /\ clock <= MaxCalls
    /\ NoteAllowed(notes)
    /\ Tick(notes)
    /\ LET current_phase == CurrentPhaseOf(episode)
       IN  /\ episode' = EpisodeAfterUpdate(episode, current_phase, "approved",
                                            notes, clock')
           /\ lastCall' = [op |-> "approve", phase |-> current_phase,
                           status |-> "approved", notes |-> notes, code |-> 200]
    /\ UNCHANGED <<onlyCurrent, phaseWrites, concVars, taskVars, swarmVars>>

\* request_episode_revision without the test of lines 3950-3951
RequestRevisionUnchecked(notes) ==
    /\ clock <= MaxCalls
    /\ NoteAllowed(notes)
    /\ Tick(notes)
    /\ LET current_phase == CurrentPhaseOf(episode)
       IN  /\ episode' = EpisodeAfterUpdate(episode, current_phase,
                                            "rejected", notes, clock')
           /\ lastCall' = [op |-> "revise", phase |-> current_phase,
                           status |-> "rejected", notes |-> notes,
                           code |-> 200]
    /\ UNCHANGED <<onlyCurrent, phaseWrites, concVars, taskVars, swarmVars>>

\* POST /api/episodes/<id>/request-revision
request_episode_revision(notes) ==
    /\ clock <= MaxCalls
    /\ NoteAllowed(notes)
    /\ IF notes = ""
       THEN /\ Tick("")
            /\ episode' = episode
            /\ lastCall' = [op |-> "revise", phase |-> CurrentPhaseOf(episode),
                            status |-> "rejected", notes |-> notes, code |-> 400]
       ELSE /\ Tick(notes)
            /\ LET current_phase == CurrentPhaseOf(episode)
               IN  /\ episode' = EpisodeAfterUpdate(episode, current_phase,
                                                    "rejected", notes, clock')
                   /\ lastCall' = [op |-> "revise", phase |-> current_phase,
                                   status |-> "rejected", notes |-> notes,
                                   code |-> 200]
    /\ UNCHANGED <<onlyCurrent, phaseWrites, concVars, taskVars, swarmVars>>

\* ------------------------------------------- requests in flight together
\* The server handles requests on threads; a handler's reads and writes of
\* the store are separate steps, and update_doc('episodes', id, {'workflow':
\* workflow}) replaces the stored workflow by the caller's copy.

Threads == 1 .. MaxThreads

NoReq == [op |-> "none", phase |-> "research", status |-> "pending",
          notes |-> "", doc |-> [hasWorkflow |-> FALSE,
                                 workflow |-> initialize_episode_workflow(1)]]

\* update_workflow_phase up to its call of update_episode_phase (line 2831)
BeginSetPhase(t, phase, status, notes) ==
    /\ pc[t] = "idle"
    /\ pc' = [pc EXCEPT ![t] = "get"]
    /\ req' = [req EXCEPT ![t] = [NoReq EXCEPT !.op = "set", !.phase = phase,
                                                !.status = status, !.notes = notes]]
    /\ UNCHANGED <<episode, clock, startDoc, seqVars, taskVars, swarmVars>>

\* approve_episode_phase up to its call of update_episode_phase (line 3932):
\* it reads the episode for currentPhase
BeginApprove(t, notes) ==
    /\ pc[t] = "idle"
    /\ pc' = [pc EXCEPT ![t] = "get"]
    /\ req' = [req EXCEPT ![t] = [NoReq EXCEPT !.op = "approve",
                                                !.phase = CurrentPhaseOf(episode),
                                                !.status = "approved",
                                                !.notes = notes]]
    /\ UNCHANGED <<episode, clock, startDoc, seqVars, taskVars, swarmVars>>

\* update_episode_phase line 190: episode = get_doc('episodes', episode_id)
GetDoc(t) ==
    /\ pc[t] = "get"
    /\ pc' = [pc EXCEPT ![t] = "put"]
    /\ req' = [req EXCEPT ![t].doc = episode]
    /\ UNCHANGED <<episode, clock, startDoc, seqVars, taskVars, swarmVars>>

\* update_episode_phase lines 194-220 on the copy read, then update_doc
UpdateDoc(t) ==
    /\ pc[t] = "put"
    /\ pc' = [pc EXCEPT ![t] = "done"]
    /\ clock' = clock + 1
    /\ episode' = EpisodeAfterUpdate(req[t].doc, req[t].phase, req[t].status,
                                     req[t].notes, clock')
    /\ UNCHANGED <<req, startDoc, seqVars, taskVars, swarmVars>>

\* ------------------------------------------------------------ agent tasks
\* A string is a sequence of pieces, << >> is None (and the empty string,
\* falsy alike); outputData is << >> or a key followed by its text.

AGENT_TYPES == {"research_specialist", "archive_specialist",
                "interview_producer", "script_writer", "fact_checker"}

TASK_STATUSES == {"pending", "in_progress", "completed", "failed"}

\* What a client may send as `agentType`: the five types and one that is not.
AgentTypeInputs == AGENT_TYPES \cup {"narrator"}

\* What a client may send as `outputData` and as `error`.
OutputInputs == {<< >>, <<"result", "client text">>}
ErrorInputs == {<< >>, <<"client error">>}

\* create_agent_task: the document handed to create_doc
create_agent_task(agent_type, input_data) ==
    [agentType   |-> agent_type,
     status      |-> "pending",
     inputData   |-> input_data,
     outputData  |-> << >>,
     startedAt   |-> NoTime,
     completedAt |-> NoTime,
     error       |-> << >>]

\* update_agent_task without lines 331-332: a terminal status is stored
\* without its completedAt.
UpdateFieldsNoCompletedAt(task, status, output_data, error, now) ==
    LET t1 == [task EXCEPT !.status = status]
        t2 == IF status = "in_progress" THEN [t1 EXCEPT !.startedAt = now] ELSE t1
        t3 == IF output_data # << >> THEN [t2 EXCEPT !.outputData = output_data] ELSE t2
    IN  IF error # << >> THEN [t3 EXCEPT !.error = error] ELSE t3

\* update_agent_task: the task document after update_doc merged update_data
update_agent_task(task, status, output_data, error, now) ==
    LET t1 == [task EXCEPT !.status = status]
        t2 == IF status = "in_progress"
              THEN [t1 EXCEPT !.startedAt = now]
              ELSE IF status \in {"completed", "failed"}
                   THEN [t1 EXCEPT !.completedAt = now]
                   ELSE t1
        t3 == IF output_data # << >> THEN [t2 EXCEPT !.outputData = output_data] ELSE t2
    IN  IF error # << >> THEN [t3 EXCEPT !.error = error] ELSE t3

NewLog == [changes |-> 0, genFailed |-> FALSE]

\* the history of task `id` after its status was written as `status`
LogAfter(id, status) ==
    [taskLog EXCEPT ![id].changes =
        IF tasks[id].status = status THEN @ ELSE @ + 1]

\* POST /api/agent-tasks
create_agent_task_route(agent_type) ==
    /\ Len(tasks) < MaxTasks
    /\ IF agent_type \notin AGENT_TYPES
       THEN /\ lastCall' = [NoCall EXCEPT !.op = "create_task", !.code = 400]
            /\ UNCHANGED <<tasks, taskLog, clock>>
       ELSE /\ clock' = clock + 1
            /\ tasks' = Append(tasks, create_agent_task(agent_type, << >>))
            /\ taskLog' = Append(taskLog, NewLog)
            /\ lastCall' = [NoCall EXCEPT !.op = "create_task", !.code = 201]
    /\ UNCHANGED <<episode, noteCount, phaseWrites, onlyCurrent, concVars,
                   taskCalls, swarmVars>>

\* PUT /api/agent-tasks/<task_id>, for a task the store holds
update_agent_task_route(id, status, output_data, error) ==
    /\ taskCalls < MaxTaskUpdates
    /\ taskCalls' = taskCalls + 1
    /\ id \in DOMAIN tasks
    /\ clock' = clock + 1
    /\ tasks' = [tasks EXCEPT ![id] =
                    update_agent_task(@, status, output_data, error, clock')]
    /\ taskLog' = LogAfter(id, status)
    /\ UNCHANGED <<episode, seqVars, concVars, swarmVars>>

\* ------------------------------------------------------- the script swarm
\* ai_script_swarm, one store operation or generation call per step.  The
\* generation service returns a text or raises; a store operation (create_doc,
\* update_doc) succeeds or raises before it wrote anything.

FanOut == <<"research_specialist", "archive_specialist", "interview_producer">>

\* model.generate_content for the call made for `agent`
GenOutcomes(agent) ==
    {[ok |-> TRUE, text |-> <<"text of", agent>>, msg |-> ""],
     [ok |-> FALSE, text |-> << >>, msg |-> "quota exceeded"]}

\* str(e) of what a store operation raises
StoreError == "store unavailable"

\* generate_ai_response with the exception left to the caller: what line
\* 3355 would then put in results.
GenerateOrPlaceholder(outcome) ==
    IF outcome.ok THEN outcome.text ELSE <<"Error: ", outcome.msg>>

\* generate_ai_response: the text, or "AI error: <message>" for an exception
generate_ai_response(outcome) ==
    IF outcome.ok THEN outcome.text ELSE <<"AI error: ", outcome.msg>>

\* results.get(agent): None when the key is absent
Get(results, agent) ==
    IF agent \in DOMAIN results THEN results[agent] ELSE <<"None">>

\* results[agent_type] = value
Put(results, agent, value) ==
    [a \in DOMAIN results \cup {agent} |->
        IF a = agent THEN value ELSE results[a]]

NoHttp == [code |-> 0, scriptVersionId |-> 0]

Idle == [pc |-> "idle", i |-> 1, ids |-> << >>, results |-> << >>,
         response |-> << >>, e |-> "", script_task |-> 0, fact_task |-> 0,
         script_response |-> << >>, fact_response |-> << >>, http |-> NoHttp,
         versions0 |-> 0, tasks0 |-> 0]

\* a store operation raises
Fault ==
    /\ faults < MaxFaults
    /\ faults' = faults + 1

\* (versions0 and tasks0 are history: the script versions and the agent
\* tasks stored when the run began)

\* the `except Exception` clauses of lines 3433 and 3436: a 500 response
Return500 ==
    sw' = [sw EXCEPT !.pc = "returned", !.e = StoreError,
                     !.http = [code |-> 500, scriptVersionId |-> 0]]

\* update_agent_task(task_id, status, output_data, error) on the store
WriteTask(id, status, output_data, error) ==
    /\ clock' = clock + 1
    /\ tasks' = [tasks EXCEPT ![id] =
                    update_agent_task(@, status, output_data, error, clock')]
    /\ taskLog' = LogAfter(id, status)

\* create_agent_task(...) on the store
AddTask(agent_type, input_data) ==
    /\ clock' = clock + 1
    /\ tasks' = Append(tasks, create_agent_task(agent_type, input_data))
    /\ taskLog' = Append(taskLog, NewLog)

\* the generation call made for task `id` raised inside generate_ai_response
NoteGeneration(id, outcome) ==
    taskLog' = [taskLog EXCEPT ![id].genFailed = ~outcome.ok]

\* lines 3271-3293: a request arrives (the handler before it, if any, has
\* returned) and the three fan-out tasks are created
SwarmCreateTasks ==
    /\ sw.pc \in {"idle", "returned"}
    /\ runs < MaxRuns
    /\ runs' = runs + 1
    /\ \/ /\ clock' = clock + 1
          /\ tasks' = tasks \o [k \in 1 .. 3 |->
                                   create_agent_task(FanOut[k], [context |-> <<"context">>])]
          /\ taskLog' = taskLog \o [k \in 1 .. 3 |-> NewLog]
          /\ sw' = [Idle EXCEPT !.pc = "mark",
                                !.ids = [k \in 1 .. 3 |-> Len(tasks) + k],
                                !.versions0 = Len(scriptVersions),
                                !.tasks0 = Len(tasks)]
          /\ UNCHANGED faults
       \/ \E made \in 0 .. 2 :
             /\ Fault
             /\ clock' = clock + 1
             /\ tasks' = tasks \o [k \in 1 .. made |->
                                      create_agent_task(FanOut[k], [context |-> <<"context">>])]
             /\ taskLog' = taskLog \o [k \in 1 .. made |-> NewLog]
             /\ sw' = [Idle EXCEPT !.pc = "returned", !.e = StoreError,
                                   !.versions0 = Len(scriptVersions),
                                !.tasks0 = Len(tasks),
                                   !.http = [code |-> 500, scriptVersionId |-> 0]]
    /\ UNCHANGED <<scriptVersions, flowVars, taskCalls, versionVars>>

\* line 3348: update_agent_task(task['id'], 'in_progress'), outside the try
SwarmMarkRunning ==
    /\ sw.pc = "mark"
    /\ \/ /\ WriteTask(sw.ids[sw.i], "in_progress", << >>, << >>)
          /\ sw' = [sw EXCEPT !.pc = "generate"]
          /\ UNCHANGED faults
       \/ /\ Fault
          /\ Return500
          /\ UNCHANGED <<tasks, taskLog, clock>>
    /\ UNCHANGED <<scriptVersions, runs, flowVars, taskCalls, versionVars>>

\* lines 3350-3351: the generation call and results[agent_type] = response
SwarmGenerate(outcome) ==
    /\ sw.pc = "generate"
    /\ LET response == generate_ai_response(outcome)
       IN  sw' = [sw EXCEPT !.pc = "complete", !.response = response,
                            !.results = Put(@, FanOut[sw.i], response)]
    /\ NoteGeneration(sw.ids[sw.i], outcome)
    /\ UNCHANGED <<tasks, clock, scriptVersions, runs, faults, flowVars, taskCalls, versionVars>>

\* AfterTask with the loop ending one task early
AfterTaskEarly(locals) ==
    IF locals.i < 2
    THEN [locals EXCEPT !.pc = "mark", !.i = @ + 1]
    ELSE [locals EXCEPT !.pc = "script_create"]

\* the loop of line 3299 moves to its next task, or ends
AfterTask(locals) ==
    IF locals.i < 3
    THEN [locals EXCEPT !.pc = "mark", !.i = @ + 1]
    ELSE [locals EXCEPT !.pc = "script_create"]

\* line 3352: update_agent_task(task['id'], 'completed', {'analysis': response})
SwarmComplete ==
    /\ sw.pc = "complete"
    /\ \/ /\ WriteTask(sw.ids[sw.i], "completed", <<"analysis">> \o sw.response, << >>)
          /\ sw' = AfterTask(sw)
          /\ UNCHANGED faults
       \/ /\ Fault
          /\ sw' = [sw EXCEPT !.pc = "except", !.e = StoreError]
          /\ UNCHANGED <<tasks, taskLog, clock>>
    /\ UNCHANGED <<scriptVersions, runs, flowVars, taskCalls, versionVars>>

\* lines 3353-3355: the task is marked failed, results gets "Error: <message>"
SwarmExcept ==
    /\ sw.pc = "except"
    /\ \/ /\ WriteTask(sw.ids[sw.i], "failed", << >>, <<sw.e>>)
          /\ sw' = AfterTask([sw EXCEPT !.results =
                                  Put(@, FanOut[sw.i], <<"Error: ", sw.e>>)])
          /\ UNCHANGED faults
       \/ /\ Fault
          /\ Return500
          /\ UNCHANGED <<tasks, taskLog, clock>>
    /\ UNCHANGED <<scriptVersions, runs, flowVars, taskCalls, versionVars>>

\* lines 3378-3380: the script_writer task, its input the fan-out results
SwarmCreateScriptTask ==
    /\ sw.pc = "script_create"
    /\ \/ /\ AddTask("script_writer", [agentInputs |-> sw.results])
          /\ sw' = [sw EXCEPT !.pc = "script_start", !.script_task = Len(tasks) + 1]
          /\ UNCHANGED faults
       \/ /\ Fault
          /\ Return500
          /\ UNCHANGED <<tasks, taskLog, clock>>
    /\ UNCHANGED <<scriptVersions, runs, flowVars, taskCalls, versionVars>>

\* line 3381
SwarmStartScript ==
    /\ sw.pc = "script_start"
    /\ \/ /\ WriteTask(sw.script_task, "in_progress", << >>, << >>)
          /\ sw' = [sw EXCEPT !.pc = "script_generate"]
          /\ UNCHANGED faults
       \/ /\ Fault
          /\ Return500
          /\ UNCHANGED <<tasks, taskLog, clock>>
    /\ UNCHANGED <<scriptVersions, runs, flowVars, taskCalls, versionVars>>

\* lines 3384-3385
SwarmGenerateScript(outcome) ==
    /\ sw.pc = "script_generate"
    /\ sw' = [sw EXCEPT !.pc = "script_complete",
                        !.script_response = generate_ai_response(outcome)]
    /\ NoteGeneration(sw.script_task, outcome)
    /\ UNCHANGED <<tasks, clock, scriptVersions, runs, faults, flowVars, taskCalls, versionVars>>

\* line 3386
SwarmCompleteScript ==
    /\ sw.pc = "script_complete"
    /\ \/ /\ WriteTask(sw.script_task, "completed",
                       <<"script">> \o sw.script_response, << >>)
          /\ sw' = [sw EXCEPT !.pc = "fact_create"]
          /\ UNCHANGED faults
       \/ /\ Fault
          /\ Return500
          /\ UNCHANGED <<tasks, taskLog, clock>>
    /\ UNCHANGED <<scriptVersions, runs, flowVars, taskCalls, versionVars>>

\* lines 3399-3401: the fact_checker task
SwarmCreateFactTask ==
    /\ sw.pc = "fact_create"
    /\ \/ /\ AddTask("fact_checker", [script |-> sw.script_response])
          /\ sw' = [sw EXCEPT !.pc = "fact_start", !.fact_task = Len(tasks) + 1]
          /\ UNCHANGED faults
       \/ /\ Fault
          /\ Return500
          /\ UNCHANGED <<tasks, taskLog, clock>>
    /\ UNCHANGED <<scriptVersions, runs, flowVars, taskCalls, versionVars>>

\* line 3402
SwarmStartFact ==
    /\ sw.pc = "fact_start"
    /\ \/ /\ WriteTask(sw.fact_task, "in_progress", << >>, << >>)
          /\ sw' = [sw EXCEPT !.pc = "fact_generate"]
          /\ UNCHANGED faults
       \/ /\ Fault
          /\ Return500
          /\ UNCHANGED <<tasks, taskLog, clock>>
    /\ UNCHANGED <<scriptVersions, runs, flowVars, taskCalls, versionVars>>

\* lines 3404-3405
SwarmGenerateFact(outcome) ==
    /\ sw.pc = "fact_generate"
    /\ sw' = [sw EXCEPT !.pc = "fact_complete",
                        !.fact_response = generate_ai_response(outcome)]
    /\ NoteGeneration(sw.fact_task, outcome)
    /\ UNCHANGED <<tasks, clock, scriptVersions, runs, faults, flowVars, taskCalls, versionVars>>

\* line 3406
SwarmCompleteFact ==
    /\ sw.pc = "fact_complete"
    /\ \/ /\ WriteTask(sw.fact_task, "completed",
                       <<"verification">> \o sw.fact_response, << >>)
          /\ sw' = [sw EXCEPT !.pc = "version"]
          /\ UNCHANGED faults
       \/ /\ Fault
          /\ Return500
          /\ UNCHANGED <<tasks, taskLog, clock>>
    /\ UNCHANGED <<scriptVersions, runs, flowVars, taskCalls, versionVars>>

\* NewScriptVersion with the two responses taken for one another
NewScriptVersionSwapped(locals) ==
    [versionNumber |-> 1,
     versionType   |-> "V1_initial",
     content       |-> locals.fact_response,
     factCheck     |-> locals.script_response,
     agentOutputs  |-> [research_specialist |-> Get(locals.results, "research_specialist"),
                        archive_specialist  |-> Get(locals.results, "archive_specialist"),
                        interview_producer  |-> Get(locals.results, "interview_producer"),
                        script_writer       |-> locals.script_response,
                        fact_checker        |-> locals.fact_response],
     isLocked      |-> FALSE,
     lockedAt      |-> NoTime]

\* the document of lines 3409-3423
NewScriptVersion(locals) ==
    [versionNumber |-> 1,
     versionType   |-> "V1_initial",
     content       |-> locals.script_response,
     factCheck     |-> locals.fact_response,
     agentOutputs  |-> [research_specialist |-> Get(locals.results, "research_specialist"),
                        archive_specialist  |-> Get(locals.results, "archive_specialist"),
                        interview_producer  |-> Get(locals.results, "interview_producer"),
                        script_writer       |-> locals.script_response,
                        fact_checker        |-> locals.fact_response],
     isLocked      |-> FALSE,
     lockedAt      |-> NoTime]

\* lines 3409-3431: the script version is stored and the run answers 200
SwarmCreateVersion ==
    /\ sw.pc = "version"
    /\ \/ /\ clock' = clock + 1
          /\ scriptVersions' = Append(scriptVersions, NewScriptVersion(sw))
          /\ sw' = [sw EXCEPT !.pc = "returned",
                              !.http = [code |-> 200,
                                        scriptVersionId |-> Len(scriptVersions) + 1]]
          /\ UNCHANGED faults
       \/ /\ Fault
          /\ Return500
          /\ UNCHANGED <<scriptVersions, clock>>
    /\ UNCHANGED <<tasks, taskLog, runs, flowVars, taskCalls, versionVars>>

\* ------------------------------------------------ the script version routes
\* POST /api/script-versions, one store operation per step, and the PUT and
\* lock routes, which are one update_doc each.  A key a document does not
\* hold reads as empty (<< >>, NoTime).

SCRIPT_VERSION_TYPES ==
    <<"V1_initial", "V2_producer_review", "V3_interview_additions", "V4_locked">>

\* min(len(existing), 3), as an index of a sequence that starts at 1
TypeIndex(existing) == (IF existing < 3 THEN existing ELSE 3) + 1

\* What a client may send as `content`.
ContentInputs == {<<"draft">>}

\* What a client may send to PUT /api/script-versions/<id>.
UpdateInputs == {[content |-> <<"edited">>]}

NoWorkspace == [currentVersion |-> 0, versionHistory |-> << >>]

NoVersionReq == [pc |-> "idle", content |-> << >>, existing |-> 0, version |-> 0,
                 script_workspace |-> NoWorkspace]

\* lines 3050-3054: the document handed to create_doc
RouteScriptVersion(content, existing) ==
    [versionNumber |-> existing + 1,
     versionType   |-> SCRIPT_VERSION_TYPES[TypeIndex(existing)],
     content       |-> content,
     factCheck     |-> << >>,
     agentOutputs  |-> << >>,
     isLocked      |-> FALSE,
     lockedAt      |-> NoTime]

\* line 3050: existing = get_docs_by_episode('script_versions', episodeId)
CreateVersionCount(t, content) ==
    /\ vreq[t].pc = "idle"
    /\ vreq' = [vreq EXCEPT ![t] = [NoVersionReq EXCEPT
                                       !.pc = "create", !.content = content,
                                       !.existing = Len(scriptVersions)]]
    /\ UNCHANGED <<scriptVersions, scriptWorkspace, edits, clock, sw, runs, faults,
                   flowVars, taskVars>>

\* line 3056: version = create_doc('script_versions', data)
CreateVersionDoc(t) ==
    /\ vreq[t].pc = "create"
    /\ clock' = clock + 1
    /\ scriptVersions' = Append(scriptVersions,
                                RouteScriptVersion(vreq[t].content, vreq[t].existing))
    /\ vreq' = [vreq EXCEPT ![t].pc = "get", ![t].version = Len(scriptVersions) + 1]
    /\ UNCHANGED <<scriptWorkspace, edits, sw, runs, faults, flowVars, taskVars>>

\* lines 3059-3061: episode = get_doc(...); episode.get('scriptWorkspace', {})
CreateVersionGet(t) ==
    /\ vreq[t].pc = "get"
    /\ vreq' = [vreq EXCEPT ![t].pc = "put", ![t].script_workspace = scriptWorkspace]
    /\ UNCHANGED <<scriptVersions, scriptWorkspace, edits, clock, sw, runs, faults,
                   flowVars, taskVars>>

\* lines 3062-3072: the copy read gets the new version and is written back
CreateVersionPut(t) ==
    /\ vreq[t].pc = "put"
    /\ clock' = clock + 1
    /\ scriptWorkspace' =
          [currentVersion |-> vreq[t].version,
           versionHistory |->
              Append(vreq[t].script_workspace.versionHistory,
                     [versionId     |-> vreq[t].version,
                      versionNumber |-> vreq[t].existing + 1,
                      versionType   |-> SCRIPT_VERSION_TYPES[TypeIndex(vreq[t].existing)]])]
    /\ vreq' = [vreq EXCEPT ![t].pc = "done"]
    /\ UNCHANGED <<scriptVersions, edits, sw, runs, faults, flowVars, taskVars>>

\* PUT /api/script-versions/<version_id>: update_doc merges the client's data
update_script_version(version_id, data) ==
    /\ edits < MaxEdits
    /\ edits' = edits + 1
    /\ version_id \in DOMAIN scriptVersions
    /\ clock' = clock + 1
    /\ scriptVersions' = [scriptVersions EXCEPT ![version_id].content = data.content]
    /\ UNCHANGED <<vreq, scriptWorkspace, sw, runs, faults, flowVars, taskVars>>

\* POST /api/script-versions/<version_id>/lock
lock_script_version(version_id) ==
    /\ edits < MaxEdits
    /\ edits' = edits + 1
    /\ version_id \in DOMAIN scriptVersions
    /\ clock' = clock + 1
    /\ scriptVersions' = [scriptVersions EXCEPT ![version_id].isLocked = TRUE,
                                                ![version_id].lockedAt = clock',
                                                ![version_id].versionType = "V4_locked"]
    /\ UNCHANGED <<vreq, scriptWorkspace, sw, runs, faults, flowVars, taskVars>>

\* ------------------------------------------------------- the voiceover task
\* POST /api/ai/generate-voiceover.  A script's content is a sequence of
\* pieces; the piece "[VOICEOVER]" marks the piece after it as narration.

\* What a client may send as `scriptVersionId`: a version stored, and none.
VersionIdInputs == {1, 2}

RECURSIVE VoSections(_, _)
\* lines 3602-3616: the narration texts found in the content, numbered
VoSections(content, i) ==
    IF i >= Len(content)
    THEN << >>
    ELSE IF content[i] = "[VOICEOVER]"
         THEN <<[segmentIndex |-> i, text |-> content[i + 1], status |-> "pending"]>>
                  \o VoSections(content, i + 2)
         ELSE VoSections(content, i + 1)

\* lines 3619-3630: the document handed to create_doc('agent_tasks', ...)
VoiceoverTask(script_version_id, content) ==
    [agentType   |-> "voiceover_generator",
     status      |-> "pending",
     inputData   |-> [scriptVersionId |-> script_version_id,
                      voiceProfile    |-> "default",
                      sections        |-> VoSections(content, 1)],
     outputData  |-> << >>,
     startedAt   |-> NoTime,
     completedAt |-> NoTime,
     error       |-> << >>]

ai_generate_voiceover(script_version_id) ==
    /\ Len(tasks) < MaxTasks
    /\ IF script_version_id \notin DOMAIN scriptVersions
       THEN /\ lastCall' = [NoCall EXCEPT !.op = "voiceover", !.code = 404]
            /\ UNCHANGED <<tasks, taskLog, clock>>
       ELSE /\ clock' = clock + 1
            /\ tasks' = Append(tasks,
                               VoiceoverTask(script_version_id,
                                             scriptVersions[script_version_id].content))
            /\ taskLog' = Append(taskLog, NewLog)
            /\ lastCall' = [NoCall EXCEPT !.op = "voiceover", !.code = 200]
    /\ UNCHANGED <<episode, noteCount, phaseWrites, onlyCurrent, concVars,
                   taskCalls, swarmVars>>

\* ------------------------------------------------------------ the dashboard
\* GET /api/projects/<id>/dashboard over the episodes of one project, all of
\* one series, and PUT .../workflow/phase on one of those episodes.

\* the keys of each phase_stats[phase] (line 351): rejected is not one
DASHBOARD_STATUSES == {"pending", "in_progress", "review", "approved"}

\* the phases, in the order of the keys of EPISODE_PHASES
PhaseList == [k \in 1 .. Cardinality(Phases) |->
                 CHOOSE p \in Phases : EPISODE_PHASES[p] = k]

\* An episode document as create_episode_with_buckets and as POST
\* /api/episodes store it.
WithWorkflow == [hasWorkflow |-> TRUE, workflow |-> initialize_episode_workflow(1)]
WithoutWorkflow == [hasWorkflow |-> FALSE, workflow |-> initialize_episode_workflow(1)]

\* The projects the dashboard is asked about: none, one or two episodes.
ProjectInputs ==
    {<< >>} \cup {<<a>> : a \in {WithWorkflow, WithoutWorkflow}}
            \cup {<<a, b>> : a, b \in {WithWorkflow, WithoutWorkflow}}

NoDashboard == [computed |-> FALSE]

\* the episodes the loop of lines 354-362 counts for (phase, status)
Counted(all_episodes, phase, status) ==
    {i \in DOMAIN all_episodes :
        /\ all_episodes[i].hasWorkflow
        /\ all_episodes[i].workflow.phases[phase].status = status}

HasReview(entry) == entry.count > 0

\* get_project_dashboard_stats with the bottleneck test on 'pending'
StatsBottleneckOnPending(all_episodes) ==
    LET phase_stats ==
            [phase \in Phases |->
                [status \in DASHBOARD_STATUSES |->
                    Cardinality(Counted(all_episodes, phase, status))]]
    IN  [computed      |-> TRUE,
         totalEpisodes |-> Len(all_episodes),
         phaseStats    |-> phase_stats,
         completedEpisodes |->
            Cardinality({i \in DOMAIN all_episodes :
                            /\ all_episodes[i].hasWorkflow
                            /\ all_episodes[i].workflow.currentPhase = "assembly"
                            /\ all_episodes[i].workflow.phases["assembly"].status
                                  = "approved"}),
         bottlenecks   |->
            SelectSeq([k \in DOMAIN PhaseList |->
                          [phase |-> PhaseList[k],
                           count |-> phase_stats[PhaseList[k]]["pending"]]],
                      HasReview)]

\* get_project_dashboard_stats, for the episodes get_all_docs returned
get_project_dashboard_stats(all_episodes) ==
    LET phase_stats ==
            [phase \in Phases |->
                [status \in DASHBOARD_STATUSES |->
                    Cardinality(Counted(all_episodes, phase, status))]]
    IN  [computed      |-> TRUE,
         totalEpisodes |-> Len(all_episodes),
         phaseStats    |-> phase_stats,
         completedEpisodes |->
            Cardinality({i \in DOMAIN all_episodes :
                            /\ all_episodes[i].hasWorkflow
                            /\ all_episodes[i].workflow.currentPhase = "assembly"
                            /\ all_episodes[i].workflow.phases["assembly"].status
                                  = "approved"}),
         bottlenecks   |->
            SelectSeq([k \in DOMAIN PhaseList |->
                          [phase |-> PhaseList[k],
                           count |-> phase_stats[PhaseList[k]]["review"]]],
                      HasReview)]

\* GET /api/projects/<project_id>/dashboard
get_project_dashboard ==
    /\ dashboard' = get_project_dashboard_stats(project)
    /\ lastCall' = [NoCall EXCEPT !.op = "dashboard", !.code = 200]
    /\ UNCHANGED <<project, episode, clock, noteCount, phaseWrites, onlyCurrent,
                   concVars, taskVars, scriptVersions, sw, runs, faults,
                   versionVars>>

\* PUT /api/episodes/<id>/workflow/phase for the i-th episode of the project
update_project_episode(i, phase, status) ==
    /\ phaseWrites < MaxPhaseWrites
    /\ phaseWrites' = phaseWrites + 1
    /\ i \in DOMAIN project
    /\ clock' = clock + 1
    /\ project' = [project EXCEPT ![i] = EpisodeAfterUpdate(@, phase, status, "", clock')]
    /\ lastCall' = [op |-> "set", phase |-> phase, status |-> status,
                    notes |-> "", code |-> 200]
    /\ UNCHANGED <<dashboard, episode, noteCount, onlyCurrent,
                   concVars, taskVars, scriptVersions, sw, runs, faults,
                   versionVars>>

\* ----------------------------------------------------------- specification

\* An episode is created with a workflow (POST /api/episodes/factory,
\* create_episode_with_buckets) or without one (POST /api/episodes).
Init ==
    /\ clock = 1
    /\ episode \in {[hasWorkflow |-> TRUE, workflow |-> initialize_episode_workflow(1)],
                    [hasWorkflow |-> FALSE, workflow |-> initialize_episode_workflow(1)]}
    /\ noteCount = 0
    /\ phaseWrites = 0
    /\ lastCall = NoCall
    /\ onlyCurrent = TRUE
    /\ pc = [t \in Threads |-> "idle"]
    /\ req = [t \in Threads |-> NoReq]
    /\ startDoc = episode
    /\ tasks = << >>
    /\ taskLog = << >>
    /\ taskCalls = 0
    /\ scriptVersions = << >>
    /\ sw = Idle
    /\ runs = 0
    /\ faults = 0
    /\ vreq = [t \in Threads |-> NoVersionReq]
    /\ scriptWorkspace = NoWorkspace
    /\ edits = 0
    /\ project = << >>
    /\ dashboard = NoDashboard

Next ==
    \/ \E phase \in PhaseInputs, status \in PHASE_STATUSES, notes \in NoteInputs :
           update_workflow_phase(phase, status, notes)
    \/ \E notes \in NoteInputs : approve_episode_phase(notes)
    \/ \E notes \in NoteInputs : request_episode_revision(notes)

Spec == Init /\ [][Next]_vars

NextConc ==
    \/ \E t \in Threads, phase \in Phases, status \in PHASE_STATUSES,
          notes \in NoteInputs : BeginSetPhase(t, phase, status, notes)
    \/ \E t \in Threads, notes \in NoteInputs : BeginApprove(t, notes)
    \/ \E t \in Threads : GetDoc(t)
    \/ \E t \in Threads : UpdateDoc(t)

\* Requests served by threads of one server, in any interleaving.
SpecConc == Init /\ [][NextConc]_vars

NextTasks ==
    \/ \E agent_type \in AgentTypeInputs : create_agent_task_route(agent_type)
    \/ \E id \in 1 .. MaxTasks, status \in TASK_STATUSES,
          output_data \in OutputInputs, error \in ErrorInputs :
           update_agent_task_route(id, status, output_data, error)

\* The episode the agent routes work for was created with its workflow.
InitAgents == Init /\ episode.hasWorkflow

\* Clients of the agent task routes.
SpecTasks == InitAgents /\ [][NextTasks]_vars

NextSwarm ==
    \/ SwarmCreateTasks
    \/ SwarmMarkRunning
    \/ \E outcome \in GenOutcomes(FanOut[sw.i]) : SwarmGenerate(outcome)
    \/ SwarmComplete
    \/ SwarmExcept
    \/ SwarmCreateScriptTask
    \/ SwarmStartScript
    \/ \E outcome \in GenOutcomes("script_writer") : SwarmGenerateScript(outcome)
    \/ SwarmCompleteScript
    \/ SwarmCreateFactTask
    \/ SwarmStartFact
    \/ \E outcome \in GenOutcomes("fact_checker") : SwarmGenerateFact(outcome)
    \/ SwarmCompleteFact
    \/ SwarmCreateVersion

\* Runs of POST /api/ai/script-swarm for one episode, one after the other.
SpecSwarm == InitAgents /\ [][NextSwarm]_vars

NextVersions ==
    \/ \E t \in Threads, content \in ContentInputs : CreateVersionCount(t, content)
    \/ \E t \in Threads : CreateVersionDoc(t)
    \/ \E t \in Threads : CreateVersionGet(t)
    \/ \E t \in Threads : CreateVersionPut(t)
    \/ \E version_id \in 1 .. MaxThreads + MaxRuns, data \in UpdateInputs :
           update_script_version(version_id, data)
    \/ \E version_id \in 1 .. MaxThreads + MaxRuns : lock_script_version(version_id)

\* Clients of the script version routes, in any interleaving.
SpecVersions == InitAgents /\ [][NextVersions]_vars

\* The store operations of the handler: each one that is due is carried out.
SwarmStoreSteps ==
    \/ SwarmCreateTasks
    \/ SwarmMarkRunning
    \/ SwarmComplete
    \/ SwarmExcept
    \/ SwarmCreateScriptTask
    \/ SwarmStartScript
    \/ SwarmCompleteScript
    \/ SwarmCreateFactTask
    \/ SwarmStartFact
    \/ SwarmCompleteFact
    \/ SwarmCreateVersion

\* Pipeline runs whose handler takes every step it can; a return (or raise)
\* of model.generate_content, called with no deadline (line 396), is the
\* generation service's to make and may never come.
SpecSwarmLive == InitAgents /\ [][NextSwarm]_vars /\ WF_vars(SwarmStoreSteps)

\* The state one POST /api/script-versions, served alone by thread 1 for an
\* episode created with its workflow, leaves behind.
InitOneVersion ==
    /\ clock = 3
    /\ episode = [hasWorkflow |-> TRUE, workflow |-> initialize_episode_workflow(1)]
    /\ noteCount = 0
    /\ phaseWrites = 0
    /\ lastCall = NoCall
    /\ onlyCurrent = TRUE
    /\ pc = [t \in Threads |-> "idle"]
    /\ req = [t \in Threads |-> NoReq]
    /\ startDoc = episode
    /\ tasks = << >>
    /\ taskLog = << >>
    /\ taskCalls = 0
    /\ scriptVersions = <<RouteScriptVersion(<<"draft">>, 0)>>
    /\ sw = Idle
    /\ runs = 0
    /\ faults = 0
    /\ vreq = [t \in Threads |->
                 IF t = 1
                 THEN [NoVersionReq EXCEPT !.pc = "done", !.content = <<"draft">>,
                                           !.version = 1]
                 ELSE NoVersionReq]
    /\ scriptWorkspace =
          [currentVersion |-> 1,
           versionHistory |-> <<[versionId |-> 1, versionNumber |-> 1,
                                 versionType |-> "V1_initial"]>>]
    /\ edits = 0
    /\ project = << >>
    /\ dashboard = NoDashboard

\* Runs of POST /api/ai/script-swarm for an episode that has a script version.
SpecSwarmLater == InitOneVersion /\ [][NextSwarm]_vars

NextReview ==
    \/ \E notes \in NoteInputs : approve_episode_phase(notes)
    \/ \E notes \in NoteInputs : request_episode_revision(notes)

\* An episode driven through approve-phase and request-revision only, one
\* request at a time.
SpecReview == Init /\ [][NextReview]_vars

NextDashboard ==
    \/ get_project_dashboard
    \/ \E i \in DOMAIN project, phase \in Phases, status \in PHASE_STATUSES :
           update_project_episode(i, phase, status)

\* A project of no, one or two episodes, newly created.
InitDashboard ==
    /\ clock = 1
    /\ episode = WithWorkflow
    /\ noteCount = 0
    /\ phaseWrites = 0
    /\ lastCall = NoCall
    /\ onlyCurrent = TRUE
    /\ pc = [t \in Threads |-> "idle"]
    /\ req = [t \in Threads |-> NoReq]
    /\ startDoc = episode
    /\ tasks = << >>
    /\ taskLog = << >>
    /\ taskCalls = 0
    /\ scriptVersions = << >>
    /\ sw = Idle
    /\ runs = 0
    /\ faults = 0
    /\ vreq = [t \in Threads |-> NoVersionReq]
    /\ scriptWorkspace = NoWorkspace
    /\ edits = 0
    /\ project \in ProjectInputs
    /\ dashboard = NoDashboard

\* The dashboard of a project whose episodes' phases are being updated.
SpecDashboard == InitDashboard /\ [][NextDashboard]_vars

NextAgentRoutes ==
    \/ NextTasks
    \/ \E script_version_id \in VersionIdInputs : ai_generate_voiceover(script_version_id)

\* Clients of the agent task routes and of the voiceover route, for an
\* episode that has a script version.
SpecAgentRoutes == InitOneVersion /\ [][NextAgentRoutes]_vars

\* ------------------------------------------------------------------ claims

Workflow == episode.workflow

Order(p) == EPISODE_PHASES[p]

\* A request that set a phase to approved was served in this step.
ApprovedNow ==
    /\ clock' = clock + 1
    /\ lastCall'.status = "approved"
    /\ lastCall'.code = 200

\* C1: a request that sets phase P to approved (through the phase route or
\* approve-phase) leaves P approved, puts the phase of order(P)+1, when there
\* is one, in_progress and makes it currentPhase; approving assembly, the
\* last phase, leaves currentPhase as it was.
C1_ApproveAdvances ==
    [][ApprovedNow =>
          LET P == lastCall'.phase
              after == episode'.workflow
          IN  /\ episode'.hasWorkflow
              /\ after.phases[P].status = "approved"
              /\ \A q \in Phases :
                     Order(q) = Order(P) + 1 =>
                         /\ after.currentPhase = q
                         /\ after.phases[q].status = "in_progress"
              /\ P = "assembly" => after.currentPhase = CurrentPhaseOf(episode)
       ]_vars

\* C1 witness: research was approved and archive became current; then
\* assembly was approved and archive is still current.
C1_Witness ==
    /\ lastCall.phase = "assembly" /\ lastCall.status = "approved"
    /\ lastCall.code = 200
    /\ Workflow.phases["research"].status = "approved"
    /\ Workflow.phases["assembly"].status = "approved"
    /\ Workflow.currentPhase = "archive"

BeforeApprovedAfterPending(w) ==
    \A p \in Phases :
        /\ Order(p) < Order(w.currentPhase) => w.phases[p].status = "approved"
        /\ Order(p) > Order(w.currentPhase) => w.phases[p].status = "pending"

\* C2 as stated: in every reachable state every phase before currentPhase is
\* approved and every phase after it is pending.
C2_Original ==
    episode.hasWorkflow => BeforeApprovedAfterPending(Workflow)

\* C2 amended: the same, in the states reached by requests served one at a
\* time that each wrote the phase that was currentPhase when it was served.
C2_OrderedWhenOnlyCurrent ==
    (episode.hasWorkflow /\ onlyCurrent) => BeforeApprovedAfterPending(Workflow)

\* C2 witness: a phase-route write on the current phase after two approvals:
\* script is current, with two phases before it and two after it.
C2_Witness ==
    /\ onlyCurrent
    /\ lastCall.op = "set" /\ lastCall.code = 200 /\ lastCall.status = "review"
    /\ Workflow.currentPhase = "script"
    /\ Workflow.phases["script"].status = "review"

\* What two workflows must agree on to count as the same outcome: the
\* current phase, every status and the text of every note, in order.
View(w) ==
    [currentPhase |-> w.currentPhase,
     status |-> [p \in Phases |-> w.phases[p].status],
     notes |-> [p \in Phases |->
                  [i \in 1 .. Len(w.phases[p].reviewNotes) |->
                      w.phases[p].reviewNotes[i].text]]]

\* update_episode_phase run to its end for thread a's call, then for b's.
Serial(a, b) ==
    LET first == EpisodeAfterUpdate(startDoc, req[a].phase, req[a].status,
                                    req[a].notes, 2)
    IN  EpisodeAfterUpdate(first, req[b].phase, req[b].status, req[b].notes, 3)

\* C4 as stated: once two update_episode_phase calls on one episode have
\* both returned, the stored workflow is what running them one after the
\* other, in one order or the other, would have stored.
C4_Serialized ==
    (pc[1] = "done" /\ pc[2] = "done") =>
        \/ View(episode.workflow) = View(Serial(1, 2).workflow)
        \/ View(episode.workflow) = View(Serial(2, 1).workflow)

Terminal == {"completed", "failed"}

\* C5 as stated: a task's status becomes completed or failed only from
\* in_progress and becomes in_progress only from pending, and a pending task
\* whose status a request tried to write as completed or failed is unchanged.
C5_GuardedTransitions ==
    [][\A id \in DOMAIN tasks :
          LET old == tasks[id].status
              new == tasks'[id].status
          IN  /\ (new \in Terminal /\ new # old) => old = "in_progress"
              /\ (new = "in_progress" /\ new # old) => old = "pending"
       ]_vars

\* C6 as stated: a task whose status is completed or failed keeps that
\* status, and no task's status changes more than twice.
C6_NeverReopened ==
    [][\A id \in DOMAIN tasks :
          /\ tasks[id].status \in Terminal => tasks'[id].status = tasks[id].status
          /\ taskLog'[id].changes <= 2
       ]_vars

\* The pipeline handler has returned to its caller.
Returned == sw.pc = "returned"

\* The generation call made for the run's k-th fan-out task raised.
FanGenFailed(k) == k \in DOMAIN sw.ids /\ taskLog[sw.ids[k]].genFailed

ScriptGenFailed == sw.script_task # 0 /\ taskLog[sw.script_task].genFailed
ScriptGenSucceeded ==
    /\ sw.script_task # 0
    /\ ~taskLog[sw.script_task].genFailed
    /\ sw.script_response # << >>

FactGenFailed == sw.fact_task # 0 /\ taskLog[sw.fact_task].genFailed

\* C7 as stated: a task whose generation call failed is never completed,
\* and when its run has returned it is failed and carries an error message.
C7_GenerationFailureFailsTask ==
    \A id \in DOMAIN tasks :
        taskLog[id].genFailed =>
            /\ tasks[id].status # "completed"
            /\ Returned => (tasks[id].status = "failed" /\ tasks[id].error # << >>)

\* C8 as stated, for a run in which no store operation raised: when the
\* generation call of exactly one fan-out task failed (and those of the
\* script writer and the fact checker did not), the run has stored a script
\* version, and the script writer's input holds "Error: <message>" for the
\* failed agent and, for each of the other two, the output stored on its task.
C8_OneFanOutFailure ==
    (/\ Returned
     /\ faults = 0
     /\ Cardinality({k \in 1 .. 3 : FanGenFailed(k)}) = 1
     /\ ~ScriptGenFailed /\ ~FactGenFailed)
    =>
    /\ Len(scriptVersions) = sw.versions0 + 1
    /\ sw.script_task # 0
    /\ \A k \in 1 .. 3 :
          LET given == tasks[sw.script_task].inputData.agentInputs[FanOut[k]]
          IN  IF FanGenFailed(k)
              THEN given = <<"Error: ", "quota exceeded">>
              ELSE tasks[sw.ids[k]].outputData = <<"analysis">> \o given

\* C9 as stated: a run whose script_writer generation call failed has, when
\* it returns, stored no script version and answers with an error.
C9_SynthesisFailureAborts ==
    (Returned /\ ScriptGenFailed) =>
        /\ Len(scriptVersions) = sw.versions0
        /\ sw.http.code = 500

\* C10 as stated, for a run in which no store operation raised: when the
\* fact_checker generation call failed after the script_writer's succeeded,
\* the run has stored a script version whose content is the synthesized
\* script and whose fact-check annotation is empty, and answers 200.
C10_VerificationAdvisory ==
    (Returned /\ faults = 0 /\ ScriptGenSucceeded /\ FactGenFailed) =>
        /\ Len(scriptVersions) = sw.versions0 + 1
        /\ scriptVersions[Len(scriptVersions)].content = sw.script_response
        /\ scriptVersions[Len(scriptVersions)].factCheck = << >>
        /\ sw.http.code = 200

\* InitOneVersion is a state the version route reaches on its own.
ReachesInitOneVersion ==
    /\ scriptVersions = <<RouteScriptVersion(<<"draft">>, 0)>>
    /\ vreq[1].pc = "done" /\ vreq[1].version = 1
    /\ \A t \in Threads \ {1} : vreq[t] = NoVersionReq
    /\ clock = 3 /\ edits = 0
    /\ scriptWorkspace =
          [currentVersion |-> 1,
           versionHistory |-> <<[versionId |-> 1, versionNumber |-> 1,
                                 versionType |-> "V1_initial"]>>]

\* C11 as stated: the script version a run stored has version number equal
\* to the number of script versions the episode had when the run began,
\* plus one.
C11_VersionNumberCounts ==
    (Returned /\ sw.http.code = 200) =>
        scriptVersions[sw.http.scriptVersionId].versionNumber = sw.versions0 + 1

\* C12 as stated: whatever the interleaving of the createScriptVersion calls,
\* the stored script versions of the episode carry distinct version numbers,
\* and these are the consecutive numbers 1 .. (number of versions stored).
C12_DistinctConsecutiveNumbers ==
    /\ \A i, j \in DOMAIN scriptVersions :
           i # j => scriptVersions[i].versionNumber # scriptVersions[j].versionNumber
    /\ {scriptVersions[i].versionNumber : i \in DOMAIN scriptVersions}
           = 1 .. Len(scriptVersions)

\* C13 as stated: no step changes any field of a script version whose
\* isLocked is true.
C13_LockedIsImmutable ==
    [][\A id \in DOMAIN scriptVersions :
          scriptVersions[id].isLocked =>
              /\ id \in DOMAIN scriptVersions'
              /\ scriptVersions'[id] = scriptVersions[id]
      ]_vars

\* C14: within a run, once the script_writer task is about to be created, or
\* exists, each of the three fan-out tasks is completed or failed; and once
\* the fact_checker task is about to be created, or exists, the
\* script_writer task is completed.
C14_StagesWaitForInputs ==
    /\ (sw.pc = "script_create" \/ sw.script_task # 0) =>
           \A k \in 1 .. 3 : tasks[sw.ids[k]].status \in Terminal
    /\ (sw.pc = "fact_create" \/ sw.fact_task # 0) =>
           /\ sw.script_task # 0
           /\ tasks[sw.script_task].status = "completed"

\* C14 witness: a run went through both later stages after a fan-out task
\* had failed.
C14_Witness ==
    /\ Returned /\ sw.http.code = 200
    /\ sw.script_task # 0 /\ sw.fact_task # 0
    /\ tasks[sw.fact_task].status = "completed"
    /\ \E k \in 1 .. 3 : tasks[sw.ids[k]].status = "failed"

\* The tasks the run in progress (or the last one) created.
RunTasks == (sw.tasks0 + 1) .. Len(tasks)

C16_RunTerminates == (sw.pc = "mark") ~> Returned

Progress(doc) == get_episode_workflow_status(doc).progress

NextAlreadyApproved(P) ==
    /\ episode.hasWorkflow
    /\ \E q \in NextPhases(P) : episode.workflow.phases[q].status = "approved"

Once(phase, status, notes) ==
    EpisodeAfterUpdate(episode, phase, status, notes, clock + 1)

Twice(phase, status, notes) ==
    EpisodeAfterUpdate(Once(phase, status, notes), phase, status, notes, clock + 2)

\* currentPhase and every phase's status
Statuses(doc) ==
    [currentPhase |-> doc.workflow.currentPhase,
     status |-> [p \in Phases |-> doc.workflow.phases[p].status]]

\* every phase's startedAt and completedAt
Stamps(doc) ==
    [p \in Phases |-> [startedAt   |-> doc.workflow.phases[p].startedAt,
                       completedAt |-> doc.workflow.phases[p].completedAt]]

\* C18 as stated: in every workflow state, for every phase and status,
\* update_episode_phase applied twice leaves the same currentPhase and the
\* same status, startedAt and completedAt of every phase as applied once.
C18_Original ==
    \A phase \in Phases, status \in PHASE_STATUSES, notes \in NoteInputs :
        /\ Statuses(Twice(phase, status, notes)) = Statuses(Once(phase, status, notes))
        /\ Stamps(Twice(phase, status, notes)) = Stamps(Once(phase, status, notes))

\* C18, amended: applied twice, update_episode_phase leaves the same
\* currentPhase and statuses as applied once; the timestamps are the same
\* too when the status is not approved, and when it is approved they differ
\* in the completedAt of the phase and the startedAt of the phase after it,
\* which the second call stamps again, and in nothing else.
C18_IdempotentButForApprovalStamps ==
    \A phase \in Phases, status \in PHASE_STATUSES, notes \in NoteInputs :
        LET once == Once(phase, status, notes)
            twice == Twice(phase, status, notes)
        IN  /\ Statuses(twice) = Statuses(once)
            /\ status # "approved" => Stamps(twice) = Stamps(once)
            /\ status = "approved" =>
                  /\ Stamps(twice)[phase].completedAt = clock + 2
                  /\ Stamps(once)[phase].completedAt = clock + 1
                  /\ Stamps(twice)[phase].startedAt = Stamps(once)[phase].startedAt
                  /\ \A q \in Phases \ {phase} :
                        /\ Stamps(twice)[q].completedAt = Stamps(once)[q].completedAt
                        /\ IF q \in NextPhases(phase)
                           THEN /\ Stamps(twice)[q].startedAt = clock + 2
                                /\ Stamps(once)[q].startedAt = clock + 1
                           ELSE Stamps(twice)[q].startedAt = Stamps(once)[q].startedAt

\* C18 witness: a phase write has put a pending phase in_progress and
\* stamped its startedAt, so that the same write repeated finds it stamped.
C18_Witness ==
    /\ lastCall.op = "set" /\ lastCall.code = 200
    /\ lastCall.status = "in_progress"
    /\ lastCall.phase # "research"
    /\ Workflow.phases[lastCall.phase].startedAt = clock

\* A request-revision request was served in this step.
RevisionNow ==
    /\ clock' = clock + 1
    /\ lastCall'.op = "revise"

\* C19: a request-revision request without a note is answered 400 and
\* leaves the stored episode as it was; one with a note is answered 200,
\* sets the current phase to rejected, appends the note to that phase's log
\* and leaves currentPhase and every other phase as they were.
C19_RevisionNeedsNote ==
    [][RevisionNow =>
          IF lastCall'.notes = ""
          THEN /\ lastCall'.code = 400
               /\ episode' = episode
          ELSE LET P == CurrentPhaseOf(episode)
                   before == StoredWorkflow(episode, clock')
                   after == episode'.workflow
               IN  /\ lastCall'.code = 200
                   /\ episode'.hasWorkflow
                   /\ after.currentPhase = P
                   /\ after.phases[P].status = "rejected"
                   /\ after.phases[P].reviewNotes =
                         Append(before.phases[P].reviewNotes,
                                [text |-> lastCall'.notes, timestamp |-> clock'])
                   /\ \A q \in Phases \ {P} : after.phases[q] = before.phases[q]
      ]_vars

\* C19 witness: research was approved, then a revision of archive was
\* requested with a note, and archive is still the current phase.
C19_Witness ==
    /\ lastCall.op = "revise" /\ lastCall.code = 200
    /\ lastCall.phase = "archive"
    /\ Workflow.currentPhase = "archive"
    /\ Workflow.phases["archive"].status = "rejected"
    /\ Len(Workflow.phases["archive"].reviewNotes) = 1
    /\ Workflow.phases["research"].status = "approved"

\* C20: update_episode_phase with a phase that is not in the registry hands
\* nothing to the store, and a phase-route request naming such a phase is
\* answered 400 and leaves the stored episode as it was.
C20_UnknownPhaseWritesNothing ==
    [][/\ \A phase \in PhaseInputs \ Phases, status \in PHASE_STATUSES,
             notes \in NoteInputs :
             EpisodeAfterUpdate(episode, phase, status, notes, clock + 1) = episode
       /\ (/\ clock' = clock + 1
           /\ lastCall'.op = "set"
           /\ lastCall'.phase \notin Phases)
          => (lastCall'.code = 400 /\ episode' = episode)
      ]_vars

\* C20 witness: a phase write naming "credits" was refused on an episode
\* stored without a workflow, and it still has none.
C20_Witness ==
    /\ lastCall.op = "set" /\ lastCall.phase = "credits"
    /\ lastCall.code = 400
    /\ ~episode.hasWorkflow

\* A request that wrote a status other than approved was served in this step.
OtherStatusNow ==
    /\ clock' = clock + 1
    /\ lastCall'.op \in {"set", "revise"}
    /\ lastCall'.code = 200
    /\ lastCall'.status # "approved"

\* C21: a request that writes a status other than approved to phase P
\* leaves currentPhase as it was and the whole record of every other phase
\* (status, startedAt, completedAt, notes) as it was; P gets the status.
C21_OtherStatusTouchesOnlyTarget ==
    [][OtherStatusNow =>
          LET P == lastCall'.phase
              before == StoredWorkflow(episode, clock')
              after == episode'.workflow
          IN  /\ episode'.hasWorkflow
              /\ after.currentPhase = before.currentPhase
              /\ after.phases[P].status = lastCall'.status
              /\ after.phases[P].completedAt = before.phases[P].completedAt
              /\ \A q \in Phases \ {P} : after.phases[q] = before.phases[q]
      ]_vars

\* C21 witness: archive, the current phase, was rejected, then a phase
\* write put script in review; archive is still rejected and still current.
C21_Witness ==
    /\ lastCall.op = "set" /\ lastCall.code = 200
    /\ lastCall.phase = "script" /\ lastCall.status = "review"
    /\ Workflow.phases["script"].status = "review"
    /\ Workflow.phases["archive"].status = "rejected"
    /\ Workflow.currentPhase = "archive"

\* The note log of phase p in the stored document (empty when the episode
\* is stored without a workflow).
NoteLog(doc, p) ==
    IF doc.hasWorkflow THEN doc.workflow.phases[p].reviewNotes ELSE << >>

IsPrefix(a, b) ==
    /\ Len(a) <= Len(b)
    /\ \A i \in 1 .. Len(a) : a[i] = b[i]

\* C22 as stated: every step leaves each phase's stored note log with its
\* earlier notes in place, in order and unchanged; and the step in which
\* update_episode_phase stores its result for a call that carries a note
\* leaves that note last in the target phase's log, whatever the status.
C22_NotesAppendOnly ==
    [][/\ \A p \in Phases : IsPrefix(NoteLog(episode, p), NoteLog(episode', p))
       /\ \A t \in Threads :
             (pc[t] = "put" /\ pc'[t] = "done" /\ req[t].notes # "") =>
                 LET log == NoteLog(episode', req[t].phase)
                 IN  /\ log # << >>
                     /\ log[Len(log)] = [text |-> req[t].notes, timestamp |-> clock']
      ]_vars

\* The same, for the requests of Spec, served one at a time.
NotesAppendOnlyOneAtATime ==
    [][/\ \A p \in Phases : IsPrefix(NoteLog(episode, p), NoteLog(episode', p))
       /\ (clock' = clock + 1 /\ lastCall'.code = 200 /\ lastCall'.notes # "") =>
             LET log == NoteLog(episode', lastCall'.phase)
             IN  /\ log # << >>
                 /\ log[Len(log)] = [text |-> lastCall'.notes, timestamp |-> clock']
      ]_vars

\* startedAt of phase p in the stored document
StartedAt(doc, p) ==
    IF doc.hasWorkflow THEN doc.workflow.phases[p].startedAt ELSE NoTime

\* C23 as stated: after every step each phase of the stored workflow whose
\* status is not pending has startedAt set, and no step changes a startedAt
\* that was set.
C23_Original ==
    [][/\ \A p \in Phases :
             (episode'.hasWorkflow /\ episode'.workflow.phases[p].status # "pending")
                 => StartedAt(episode', p) # NoTime
       /\ \A p \in Phases :
             StartedAt(episode, p) # NoTime => StartedAt(episode', p) = StartedAt(episode, p)
      ]_vars

\* C23, amended: after every step each phase whose status is in_progress has
\* startedAt set; and a served update of phase P changes startedAt in two
\* cases only: P's own, to the time of the call, when the status written is
\* in_progress and P had none; and that of the phase after P, to the time of
\* the call, set before or not, when the status written is approved.
C23_StartedAtStamping ==
    [][/\ \A p \in Phases :
             (episode'.hasWorkflow /\ episode'.workflow.phases[p].status = "in_progress")
                 => StartedAt(episode', p) # NoTime
       /\ (clock' = clock + 1 /\ lastCall'.code = 200) =>
             LET P == lastCall'.phase
                 before == StoredWorkflow(episode, clock')
             IN  \A q \in Phases :
                     StartedAt(episode', q) =
                        IF lastCall'.status = "approved" /\ q \in NextPhases(P)
                        THEN clock'
                        ELSE IF /\ q = P
                                /\ lastCall'.status = "in_progress"
                                /\ before.phases[q].startedAt = NoTime
                             THEN clock'
                             ELSE before.phases[q].startedAt
      ]_vars

\* C23 witness: archive was put in review straight from pending and has no
\* startedAt.
C23_Witness ==
    /\ lastCall.op = "set" /\ lastCall.code = 200
    /\ lastCall.phase = "archive" /\ lastCall.status = "review"
    /\ Workflow.phases["archive"].status = "review"
    /\ Workflow.phases["archive"].startedAt = NoTime

\* What the claim says of a workflow that was just initialized.
NewlyInitialized(w) ==
    /\ w.currentPhase = "research"
    /\ w.phases["research"].status = "in_progress"
    /\ w.phases["research"].startedAt # NoTime
    /\ \A p \in Phases \ {"research"} :
          /\ w.phases[p].status = "pending"
          /\ w.phases[p].startedAt = NoTime
          /\ w.phases[p].completedAt = NoTime
          /\ w.phases[p].reviewNotes = << >>

\* C24: the workflow create_episode_with_buckets stored with the episode,
\* and the one initialize_episode_workflow builds at any later time (for an
\* episode stored without one), has currentPhase research, research
\* in_progress with startedAt set, and the other four phases pending with no
\* startedAt, no completedAt and no notes.
C24_InitialWorkflow ==
    /\ startDoc.hasWorkflow => NewlyInitialized(startDoc.workflow)
    /\ NewlyInitialized(initialize_episode_workflow(clock))
    /\ ~episode.hasWorkflow => NewlyInitialized(StoredWorkflow(episode, clock + 1))

\* C24 witness: the episode was created with its workflow, a request was
\* refused, and the stored workflow is still the one it was created with.
C24_Witness ==
    /\ episode.hasWorkflow
    /\ episode = startDoc
    /\ Workflow.phases["research"].startedAt = 1
    /\ lastCall.code = 400

\* C25 as stated: a stored task that has an output payload is completed, and
\* one that has an error message is failed.
C25_PayloadMatchesStatus ==
    \A id \in DOMAIN tasks :
        /\ tasks[id].outputData # << >> => tasks[id].status = "completed"
        /\ tasks[id].error # << >> => tasks[id].status = "failed"

\* C26 as stated: every stored agent task has one of the five agent types.
C26_AgentTypeInEnumeration ==
    \A id \in DOMAIN tasks : tasks[id].agentType \in AGENT_TYPES

\* C27: when GET .../dashboard is served, the count it answers for each
\* phase and each of pending, in_progress, review and approved is the number
\* of the project's episodes whose stored phase has that status; its
\* bottleneck list names, in registry order and with their review counts,
\* exactly the phases whose review count is not zero; and the step changes
\* nothing the store holds.
C27_DashboardCounts ==
    [][lastCall'.op = "dashboard" =>
          /\ dashboard'.computed
          /\ \A p \in Phases, st \in DASHBOARD_STATUSES :
                dashboard'.phaseStats[p][st] =
                    Cardinality({i \in DOMAIN project :
                                    /\ project[i].hasWorkflow
                                    /\ project[i].workflow.phases[p].status = st})
          /\ {dashboard'.bottlenecks[k].phase : k \in DOMAIN dashboard'.bottlenecks}
                = {p \in Phases : dashboard'.phaseStats[p]["review"] > 0}
          /\ \A k \in DOMAIN dashboard'.bottlenecks :
                /\ dashboard'.bottlenecks[k].count =
                       dashboard'.phaseStats[dashboard'.bottlenecks[k].phase]["review"]
                /\ \A j \in DOMAIN dashboard'.bottlenecks :
                       j < k => Order(dashboard'.bottlenecks[j].phase)
                                   < Order(dashboard'.bottlenecks[k].phase)
          /\ project' = project
          /\ episode' = episode
          /\ tasks' = tasks
          /\ scriptVersions' = scriptVersions
      ]_vars

\* C27 witness: the dashboard was answered for two episodes, one of which
\* has a phase in review, and names that phase as the bottleneck.
C27_Witness ==
    /\ lastCall.op = "dashboard"
    /\ Len(project) = 2
    /\ Len(dashboard.bottlenecks) = 1
    /\ dashboard.bottlenecks[1] = [phase |-> "script", count |-> 1]
    /\ dashboard.phaseStats["research"]["in_progress"] = 2

\* C28: in a workflow driven by approve-phase and request-revision requests
\* only, served one at a time, every phase before currentPhase is approved,
\* every phase after it is pending, and so no phase but the current one is
\* in_progress, in review or rejected.
C28_ReviewKeepsOrder ==
    episode.hasWorkflow =>
        /\ \A p \in Phases :
              /\ Order(p) < Order(Workflow.currentPhase)
                    => Workflow.phases[p].status = "approved"
              /\ Order(p) > Order(Workflow.currentPhase)
                    => Workflow.phases[p].status = "pending"
        /\ \A p \in Phases :
              Workflow.phases[p].status \in {"in_progress", "review", "rejected"}
                  => p = Workflow.currentPhase

\* C28 witness: research and archive were approved and a revision of script,
\* the current phase, was requested.
C28_Witness ==
    /\ episode.hasWorkflow
    /\ Workflow.currentPhase = "script"
    /\ Workflow.phases["script"].status = "rejected"
    /\ Workflow.phases["archive"].status = "approved"
    /\ Workflow.phases["voiceover"].status = "pending"

\* C29 as stated: whatever phase updates are served on an episode, interleaved
\* or not, the order of currentPhase never decreases and a phase that is
\* approved is never put back to in_progress.
C29_CurrentPhaseNeverBack ==
    [][/\ Order(CurrentPhaseOf(episode')) >= Order(CurrentPhaseOf(episode))
       /\ (episode.hasWorkflow /\ episode'.hasWorkflow) =>
              \A p \in Phases :
                  episode.workflow.phases[p].status = "approved"
                      => episode'.workflow.phases[p].status # "in_progress"]_vars

\* C30 as stated: when a run has returned to its caller, with success or
\* with an error, every agent task it created is completed or failed.
C30_ReturnedRunTasksTerminal ==
    Returned => \A id \in RunTasks : tasks[id].status \in Terminal

\* C3 as stated: completedAt is set if and only if the status is approved.
C3_Original ==
    episode.hasWorkflow =>
        \A p \in Phases :
            (Workflow.phases[p].completedAt # NoTime)
                <=> (Workflow.phases[p].status = "approved")

\* C3 amended: a phase whose status is approved has completedAt set.
C3_ApprovedHasCompletedAt ==
    episode.hasWorkflow =>
        \A p \in Phases :
            Workflow.phases[p].status = "approved"
                => Workflow.phases[p].completedAt # NoTime

\* C3 witness: two phases approved, each stamped at its own approval.
C3_Witness ==
    /\ episode.hasWorkflow
    /\ Workflow.phases["research"].status = "approved"
    /\ Workflow.phases["archive"].status = "approved"
    /\ Workflow.phases["research"].completedAt # NoTime
    /\ Workflow.phases["archive"].completedAt
           > Workflow.phases["research"].completedAt

====
